---- MODULE Spec2Model ----
(***************************************************************************)
(* Model of monitor_runpod_serverless_metrics.py: the per-endpoint loop of *)
(* get_runpod_serverless_metrics, the fetch (get_api_key / get_metrics),   *)
(* the staleness test (is_metrics_stale) and the writer                     *)
(* (write_metrics_data: append to "<output>.$$", then os.rename).           *)
(*                                                                         *)
(* Time is counted in ticks, TicksPerSecond ticks to a second: the sample's *)
(* 'time' string has whole-second resolution (strptime '%Y-%m-%d %H:%M:%S') *)
(* while datetime.now() has a sub-second part.                              *)
(***************************************************************************)
EXTENDS Integers, Sequences, FiniteSets, TLC

\* ---------------------------------------------------------------- bounds
MaxEndpoints == 2
MaxRuns == 2
MaxSampleTime == 2
MaxAdvance == 2
TicksPerSecond == 2

\* ------------------------------------------------------ program constants
StaleSeconds == 3600
StatusOK == 200
StatusUnauthorized == 401
StatusOther == 500

\* The fields of a metrics sample (the keys of the API's sample object).
SampleFields ==
  << "dt_max", "dt_min", "dt_total", "dt_n95", "dt_p70", "dt_p90", "dt_p98",
     "et_max", "et_min", "et_total", "et_n95", "et_p70", "et_p90", "et_p98",
     "retried", "requests", "completed_requests", "failed_requests", "time" >>

\* The fields write_metrics_data writes, in the order of its f.write calls.
WrittenFields ==
  << "dt_max", "dt_min", "dt_total", "dt_n95", "dt_p70", "dt_p90", "dt_p98",
     "et_max", "et_min", "et_total", "et_n95", "et_p70", "et_p90", "et_p98",
     "retried", "requests", "completed_requests", "failed_requests" >>

Range(s) == { s[i] : i \in 1..Len(s) }

\* ------------------------------------------------------------------ files
Absent == [exists |-> FALSE, lines |-> << >>]
File(ls) == [exists |-> TRUE, lines |-> ls]

\* ------------------------------------------------------------ clock, time
StartClock == (StaleSeconds + 1) * TicksPerSecond
MaxClock == StartClock + MaxAdvance
Clock == StartClock .. MaxClock
SampleTimes == 0 .. MaxSampleTime

\* A difference that drops the sub-second part of the current time.
TimeDiffTruncated(metrics, clock) ==
  ((clock \div TicksPerSecond) - metrics["time"]) * TicksPerSecond

\* is_metrics_stale: the 'time' string is parsed to whole seconds, the
\* difference to the current time keeps its sub-second part.
TimeDiff(metrics, clock) == clock - metrics["time"] * TicksPerSecond

\* A staleness test with the boundary on the wrong side.
IsMetricsStaleInclusive(metrics, clock) ==
  TimeDiff(metrics, clock) >= StaleSeconds * TicksPerSecond

IsMetricsStale(metrics, clock) ==
  TimeDiff(metrics, clock) > StaleSeconds * TicksPerSecond

\* -------------------------------------------------------------- formatting
RECURSIVE Str(_)
\* str() of a non-negative integer: its decimal digits.
Str(n) == IF n < 10 THEN << n >> ELSE Str(n \div 10) \o << n % 10 >>

\* One exposition line: runpod_serverless_<field>{endpoint="<name>"} <value>\n
FormatLine(field, endpoint_name, metrics) ==
  [metric |-> field, endpoint |-> endpoint_name, value |-> Str(metrics[field])]

\* ------------------------------------------------------------------ inputs
EndpointName(i) == << "a", "b", "c", "d" >>[i]

Endpoint(i, hasKey) == [name |-> EndpointName(i), id |-> i, has_api_key |-> hasKey]

Configs ==
  UNION { { [i \in 1..n |-> Endpoint(i, keys[i])] : keys \in [1..n -> BOOLEAN] }
          : n \in 1..MaxEndpoints }

\* A sample of second t whose numeric fields all carry v, with the fields in
\* `missing` absent from the object.
Sample(t, v, missing) ==
  [f \in Range(SampleFields) \ missing |-> IF f = "time" THEN t ELSE v]

\* Last samples: complete ones, and one that lacks the 'dt_min' key.
LastSamples ==
  { Sample(t, 1, {}) : t \in SampleTimes } \cup { Sample(MaxSampleTime, 1, {"dt_min"}) }

\* The 'data' lists: empty, one sample, or a sample preceded by the sample of
\* the second before, which carries other values.
DataLists ==
  { << >> } \cup { << s >> : s \in LastSamples }
            \cup { << Sample(t - 1, 0, {}), Sample(t, 1, {}) >> : t \in SampleTimes }

Responses ==
  { [status_code |-> StatusOK, data |-> d] : d \in DataLists } \cup
  { [status_code |-> c, data |-> << >>] : c \in {StatusUnauthorized, StatusOther} }

NoResponse == [status_code |-> 0, data |-> << >>]

\* ------------------------------------------------------------------- state
VARIABLES
  config,      \* config['endpoints'], fixed for the life of the model
  pc,          \* "idle" | "fetch" | "classify" | "done" | "aborted" | "killed"
  idx,         \* position of the for loop in config['endpoints']
  r,           \* the response get_metrics returned for endpoint idx
  dest,        \* <textfile_path>/runpod_serverless_metrics.prom
  tmp,         \* <textfile_path>/runpod_serverless_metrics.prom.$$
  now,         \* the UTC clock, in ticks
  run,         \* number of runs of the program started so far
  upstream,    \* what the API returns per endpoint, when it is held fixed
  destAtStart, \* history: dest when the current run started
  tmpAtStart,  \* history: whether tmp existed when the current run started
  fetched,     \* history: endpoints get_metrics was called for, this run
  runLog,      \* history: the calls of write_metrics_data of this run
  prev,        \* history: runLog and tmpAtStart of the previous run
  renames      \* history: number of os.rename calls of this run

vars == << config, pc, idx, r, dest, tmp, now, run, upstream, destAtStart,
           tmpAtStart, fetched, runLog, prev, renames >>

NoPrev == [log |-> << >>, tmpAtStart |-> FALSE]

Init ==
  /\ config \in Configs
  /\ pc = "idle"
  /\ idx = 1
  /\ r = NoResponse
  /\ dest = Absent
  /\ tmp = Absent
  /\ now = StartClock
  /\ run = 0
  /\ upstream = << >>
  /\ destAtStart = Absent
  /\ tmpAtStart = FALSE
  /\ fetched = << >>
  /\ runLog = << >>
  /\ prev = NoPrev
  /\ renames = 0

\* ----------------------------------------------------- write_metrics_data
\* The lines the f.write calls produce before the first field that is not
\* in the sample (metrics[field] raises KeyError there).
RECURSIVE WrittenLines(_, _, _)
WrittenLines(endpoint_name, metrics, k) ==
  IF k > Len(WrittenFields) \/ WrittenFields[k] \notin DOMAIN metrics
  THEN << >>
  ELSE << FormatLine(WrittenFields[k], endpoint_name, metrics) >>
         \o WrittenLines(endpoint_name, metrics, k + 1)

Complete(metrics) == \A k \in 1..Len(WrittenFields) : WrittenFields[k] \in DOMAIN metrics

\* open(tmp_output_file, 'a'): creates the file when absent, keeps its
\* content otherwise; every write goes to the end.
AppendTo(file, ls) == File(file.lines \o ls)

\* A writer without the len(endpoint_data) test: endpoint_data[-1] raises
\* IndexError on an empty list.
WriteMetricsDataNoLenTest(endpoint_name, data, t, d, clock) ==
  IF Len(data) = 0
  THEN [tmp |-> t, dest |-> d, raised |-> TRUE, renamed |-> FALSE, step |-> "empty"]
  ELSE LET metrics == data[Len(data)] IN
       IF IsMetricsStale(metrics, clock)
       THEN [tmp |-> t, dest |-> d, raised |-> FALSE, renamed |-> FALSE, step |-> "stale"]
       ELSE LET t2 == AppendTo(t, WrittenLines(endpoint_name, metrics, 1)) IN
            IF Complete(metrics)
            THEN [tmp |-> Absent, dest |-> t2, raised |-> FALSE, renamed |-> TRUE,
                  step |-> "written"]
            ELSE [tmp |-> t2, dest |-> d, raised |-> TRUE, renamed |-> FALSE,
                  step |-> "keyerror"]

\* A writer that copies the temporary file onto the destination instead of
\* renaming it: the temporary file stays.
WriteMetricsDataCopy(endpoint_name, data, t, d, clock) ==
  IF Len(data) = 0
  THEN [tmp |-> t, dest |-> d, raised |-> FALSE, renamed |-> FALSE, step |-> "empty"]
  ELSE LET metrics == data[Len(data)] IN
       IF IsMetricsStale(metrics, clock)
       THEN [tmp |-> t, dest |-> d, raised |-> FALSE, renamed |-> FALSE, step |-> "stale"]
       ELSE LET t2 == AppendTo(t, WrittenLines(endpoint_name, metrics, 1)) IN
            IF Complete(metrics)
            THEN [tmp |-> t2, dest |-> t2, raised |-> FALSE, renamed |-> TRUE,
                  step |-> "written"]
            ELSE [tmp |-> t2, dest |-> d, raised |-> TRUE, renamed |-> FALSE,
                  step |-> "keyerror"]

\* write_metrics_data(endpoint_name, output_file, data) run to its end (return
\* or KeyError) on the files (t, d) at time clock.
WriteMetricsData(endpoint_name, data, t, d, clock) ==
  IF Len(data) = 0
  THEN [tmp |-> t, dest |-> d, raised |-> FALSE, renamed |-> FALSE, step |-> "empty"]
  ELSE LET metrics == data[Len(data)] IN
       IF IsMetricsStale(metrics, clock)
       THEN [tmp |-> t, dest |-> d, raised |-> FALSE, renamed |-> FALSE, step |-> "stale"]
       ELSE LET t2 == AppendTo(t, WrittenLines(endpoint_name, metrics, 1)) IN
            IF Complete(metrics)
            THEN [tmp |-> Absent, dest |-> t2, raised |-> FALSE, renamed |-> TRUE,
                  step |-> "written"]
            ELSE [tmp |-> t2, dest |-> d, raised |-> TRUE, renamed |-> FALSE,
                  step |-> "keyerror"]

\* One runLog entry per endpoint that reached write_metrics_data: what the call
\* did and, when it wrote a full line set, the sample it wrote.
\* `late` is the exact comparison of the last sample's age with the
\* freshness window at the time of the call.
LogEntry(endpoint_name, data, step, clock) ==
  [name |-> endpoint_name, step |-> step,
   metrics |-> IF step = "written" THEN data[Len(data)] ELSE << >>,
   late |-> /\ Len(data) > 0
            /\ clock - data[Len(data)]["time"] * TicksPerSecond
                 > StaleSeconds * TicksPerSecond]

\* ------------------------------------------------------------------ actions
Terminated == pc \in {"idle", "done", "aborted", "killed"}

\* python3 monitor_runpod_serverless_metrics.py: the loop starts at the first
\* endpoint of the configuration.
Begin(clock) ==
  /\ Terminated
  /\ run < MaxRuns
  /\ run' = run + 1
  /\ pc' = "fetch"
  /\ idx' = 1
  /\ r' = NoResponse
  /\ now' = clock
  /\ destAtStart' = dest
  /\ tmpAtStart' = tmp.exists
  /\ fetched' = << >>
  /\ runLog' = << >>
  /\ renames' = 0
  /\ UNCHANGED << config, dest, tmp, upstream >>

StartRun ==
  /\ upstream = << >>
  /\ \E clock \in now .. MaxClock : Begin(clock)
  /\ UNCHANGED prev

\* r = get_metrics(endpoint): get_api_key raises when the endpoint has no
\* api_key, otherwise the GET returns resp at time clock.
GetMetrics(resp, clock) ==
  /\ pc = "fetch"
  /\ fetched' = Append(fetched, idx)
  /\ IF config[idx].has_api_key
     THEN /\ r' = resp
          /\ now' = clock
          /\ pc' = "classify"
     ELSE /\ pc' = "aborted"
          /\ UNCHANGED << r, now >>
  /\ UNCHANGED << config, idx, dest, tmp, run, upstream, destAtStart,
                  tmpAtStart, runLog, prev, renames >>

Fetch ==
  /\ upstream = << >>
  /\ \E resp \in Responses, clock \in now .. MaxClock : GetMetrics(resp, clock)

\* httpx.get raises (connection error, timeout): the exception ends the run.
FetchFails ==
  /\ upstream = << >>
  /\ pc = "fetch"
  /\ config[idx].has_api_key
  /\ fetched' = Append(fetched, idx)
  /\ pc' = "aborted"
  /\ UNCHANGED << config, idx, r, dest, tmp, now, run, upstream, destAtStart,
                  tmpAtStart, runLog, prev, renames >>

\* A status test that forgets the final else: other statuses are skipped.
StatusActionLenient(status_code) ==
  IF status_code = StatusUnauthorized THEN "raise"
  ELSE IF status_code = StatusOK THEN "write"
  ELSE "skip"

\* The if / elif / else on r.status_code in the loop body.
StatusAction(status_code) ==
  IF status_code = StatusUnauthorized THEN "raise"
  ELSE IF status_code = StatusOK THEN "write"
  ELSE "raise"

\* The status test of the loop body and, for 200, write_metrics_data run to
\* its end; then the next iteration, or the end of the loop.
Classify ==
  /\ pc = "classify"
  /\ LET act == StatusAction(r.status_code)
         w == WriteMetricsData(config[idx].name, r.data, tmp, dest, now) IN
     IF act = "raise"
     THEN /\ pc' = "aborted"
          /\ UNCHANGED << idx, dest, tmp, runLog, renames >>
     ELSE IF act = "write"
     THEN /\ tmp' = w.tmp
          /\ dest' = w.dest
          /\ renames' = IF w.renamed THEN renames + 1 ELSE renames
          /\ runLog' = Append(runLog, LogEntry(config[idx].name, r.data, w.step, now))
          /\ IF w.raised
             THEN pc' = "aborted" /\ idx' = idx
             ELSE /\ idx' = idx + 1
                  /\ pc' = IF idx = Len(config) THEN "done" ELSE "fetch"
     ELSE /\ idx' = idx + 1
          /\ pc' = IF idx = Len(config) THEN "done" ELSE "fetch"
          /\ UNCHANGED << dest, tmp, runLog, renames >>
  /\ UNCHANGED << config, r, now, run, upstream, destAtStart, tmpAtStart,
                  fetched, prev >>

\* Prefix lengths at which the process may die inside write_metrics_data:
\* after the first line, and after the last line but before os.rename.
KillPoints == { 1, Len(WrittenFields) }

\* The process is killed inside write_metrics_data, after k lines reached the
\* temporary file and before os.rename.
KilledInWrite ==
  /\ upstream = << >>
  /\ pc = "classify"
  /\ r.status_code = StatusOK
  /\ Len(r.data) > 0
  /\ ~IsMetricsStale(r.data[Len(r.data)], now)
  /\ LET ls == WrittenLines(config[idx].name, r.data[Len(r.data)], 1) IN
     \E k \in KillPoints :
        /\ k <= Len(ls)
        /\ tmp' = AppendTo(tmp, SubSeq(ls, 1, k))
  /\ runLog' = Append(runLog, LogEntry(config[idx].name, r.data, "killed", now))
  /\ pc' = "killed"
  /\ UNCHANGED << config, idx, r, dest, now, run, upstream, destAtStart,
                  tmpAtStart, fetched, prev, renames >>

\* The process is killed between two steps of the loop.
Kill ==
  /\ upstream = << >>
  /\ pc \in {"fetch", "classify"}
  /\ pc' = "killed"
  /\ UNCHANGED << config, idx, r, dest, tmp, now, run, upstream, destAtStart,
                  tmpAtStart, fetched, runLog, prev, renames >>

Next == StartRun \/ Fetch \/ FetchFails \/ Classify \/ KilledInWrite \/ Kill

Spec == Init /\ [][Next]_vars

\* --------------------------------------- two runs over the same upstream data
InitIdem ==
  /\ config \in Configs
  /\ upstream \in [1..Len(config) -> Responses]
  /\ pc = "idle"
  /\ idx = 1
  /\ r = NoResponse
  /\ dest = Absent
  /\ tmp = Absent
  /\ now = StartClock
  /\ run = 0
  /\ destAtStart = Absent
  /\ tmpAtStart = FALSE
  /\ fetched = << >>
  /\ runLog = << >>
  /\ prev = NoPrev
  /\ renames = 0

\* The next run starts at a later clock time than the previous one.
StartRunIdem ==
  /\ upstream # << >>
  /\ \E clock \in now .. MaxClock :
        /\ run > 0 => clock > now
        /\ Begin(clock)
  /\ prev' = [log |-> runLog, tmpAtStart |-> tmpAtStart]

\* The API returns for each endpoint what it returned in the run before.
FetchIdem ==
  /\ upstream # << >>
  /\ pc = "fetch"
  /\ \E clock \in now .. MaxClock : GetMetrics(upstream[idx], clock)

NextIdem == StartRunIdem \/ FetchIdem \/ Classify

SpecIdem == InitIdem /\ [][NextIdem]_vars

\* ================================================================== claims
NumWritten == Len(WrittenFields)

\* The k-th line of a complete line set for an endpoint and a sample, written
\* out from the f.write calls.
ExpectedLine(k, endpoint_name, metrics) ==
  [metric |-> WrittenFields[k], endpoint |-> endpoint_name,
   value |-> Str(metrics[WrittenFields[k]])]

LabelledLines(file, endpoint_name) ==
  SelectSeq(file.lines, LAMBDA l : l.endpoint = endpoint_name)

\* The endpoints of this run whose fresh last sample was written in full.
WrittenIdx == { i \in DOMAIN runLog : runLog[i].step = "written" }

Max(S) == CHOOSE x \in S : \A y \in S : y <= x

\* ls is a concatenation of complete per-endpoint line sets.
CompleteSets(ls) ==
  /\ Len(ls) % NumWritten = 0
  /\ \A i \in 1..Len(ls) :
       LET k == ((i - 1) % NumWritten) + 1
           first == i - (k - 1) IN
       /\ ls[i].metric = WrittenFields[k]
       /\ ls[i].endpoint = ls[first].endpoint

\* The run ended on a missing api_key, a 401 or another status than 200.
FatalAbort ==
  /\ pc = "aborted"
  /\ \/ ~config[idx].has_api_key
     \/ r.status_code \notin {StatusOK, NoResponse.status_code}

\* The exact age, in ticks, of the last sample of the response just processed.
AgeOfLast == now - r.data[Len(r.data)]["time"] * TicksPerSecond

\* C1: within a run the destination is renamed onto only after every endpoint
\* of the configuration has been processed, and at most once.
C1_RenameOnlyAfterAllEndpoints ==
  renames > 0 => (idx > Len(config) /\ renames <= 1)

\* C2: a run that ends on a fatal condition (missing api_key, 401, other
\* status than 200) leaves the destination as it was when the run started.
C2_FatalLeavesDestination ==
  FatalAbort => dest = destAtStart

\* C3: after a run in which every endpoint returned 200, the destination holds
\* for every endpoint with a fresh last sample exactly 19 lines labelled with its
\* name, one per sample field in the fixed order, 'time' included.
C3_NineteenLinesPerFreshEndpoint ==
  pc = "done" =>
    \A i \in WrittenIdx :
      LET ls == LabelledLines(dest, runLog[i].name) IN
      /\ Len(ls) = Len(SampleFields)
      /\ \A k \in 1..Len(ls) : ls[k].metric = SampleFields[k]

\* C4: in every reachable state, crashes in the middle of a write and later
\* runs included, the destination is absent or holds only complete
\* per-endpoint line sets.
C4_DestinationHoldsCompleteSets ==
  dest.exists => CompleteSets(dest.lines)

\* C6: after a run in which every endpoint returned 200, every line of the
\* destination comes from a response of that run.
C6_OverwrittenWholesale ==
  pc = "done" =>
    \A j \in 1..Len(dest.lines) :
      \E i \in WrittenIdx, k \in 1..NumWritten :
        dest.lines[j] = ExpectedLine(k, runLog[i].name, runLog[i].metrics)

\* C8: an endpoint answering 200 with an empty data list leaves the temporary
\* file and the destination alone, renames nothing, raises nothing, and the loop
\* goes on to the next endpoint of the configuration (or ends after the last).
C8_EmptyDataIsSkipped ==
  [][ (pc = "classify" /\ r.status_code = StatusOK /\ Len(r.data) = 0
         /\ pc' # "killed")
      => /\ tmp' = tmp
         /\ dest' = dest
         /\ renames' = renames
         /\ idx' = idx + 1
         /\ pc' = (IF idx = Len(config) THEN "done" ELSE "fetch") ]_vars

\* The first endpoint answered with an empty list and the second was fetched.
C8_Witness ==
  /\ Len(runLog) >= 1
  /\ runLog[1].step = "empty"
  /\ Len(fetched) = 2
  /\ pc = "classify"
  /\ dest.exists

\* C9: endpoints are fetched one at a time in configuration order, endpoint
\* i+1 only after endpoint i answered 200 and was processed without an error,
\* and after a fatal condition no further endpoint is fetched in that run.
C9_SequentialFetch ==
  /\ [] /\ \A i \in 1..Len(fetched) : fetched[i] = i
        /\ \A i \in 1..(Len(fetched) - 1) :
             /\ config[i].has_api_key
             /\ Len(runLog) >= i
             /\ runLog[i].name = config[i].name
             /\ runLog[i].step \in {"written", "stale", "empty"}
        /\ Len(runLog) <= Len(fetched)
  /\ [][ (pc = "aborted" /\ run' = run)
         => (fetched' = fetched /\ runLog' = runLog /\ dest' = dest /\ tmp' = tmp) ]_vars

\* A run that fetched its first endpoint and aborted on the second.
C9_Witness ==
  /\ FatalAbort
  /\ fetched = << 1, 2 >>
  /\ Len(runLog) = 1
  /\ runLog[1].step = "written"

C7_WholeSecondBoundary ==
  [][ (pc = "classify" /\ r.status_code = StatusOK /\ Len(r.data) > 0
         /\ pc' # "killed")
      => LET m == r.data[Len(r.data)]
             delta == (now - m["time"] * TicksPerSecond) \div TicksPerSecond IN
         (delta > StaleSeconds) <=> (tmp' = tmp /\ dest' = dest) ]_vars

\* C7 (amended): with delta the exact difference, sub-second part of the
\* current time included, the last sample is discarded, and nothing is written,
\* if and only if delta > 3600 s; a sample that is not discarded is the last
\* element of the list, and its lines are what is appended.
C7_ExactBoundary ==
  [][ (pc = "classify" /\ r.status_code = StatusOK /\ Len(r.data) > 0
         /\ pc' # "killed")
      => LET m == r.data[Len(r.data)]
             delta == now - m["time"] * TicksPerSecond IN
         IF delta > StaleSeconds * TicksPerSecond
         THEN tmp' = tmp /\ dest' = dest /\ pc' # "aborted"
         ELSE \/ /\ pc' = "aborted"
                 /\ tmp'.exists
                 /\ tmp' # tmp
                 /\ dest' = dest
              \/ /\ pc' # "aborted"
                 /\ Len(dest'.lines) = Len(tmp.lines) + NumWritten
                 /\ \A k \in 1..NumWritten :
                      dest'.lines[Len(tmp.lines) + k]
                        = ExpectedLine(k, config[idx].name, m) ]_vars

\* A run wrote the last sample of one endpoint and has just discarded the last
\* sample of the next one, 3600 s and a fraction old and preceded in its list
\* by a fresher sample.
C7_Witness ==
  /\ pc = "done"
  /\ Len(runLog) = 2
  /\ runLog[1].step = "written"
  /\ runLog[2].step = "stale"
  /\ Len(r.data) = 2
  /\ AgeOfLast > StaleSeconds * TicksPerSecond
  /\ AgeOfLast < (StaleSeconds + 1) * TicksPerSecond
  /\ dest.exists
  /\ LabelledLines(dest, runLog[2].name) = << >>

\* The two runs classified the last sample of every endpoint they both
\* processed on the same side of the 3600 s boundary.
SameSide ==
  \A i \in 1..Len(runLog) :
    i <= Len(prev.log) =>
      runLog[i].late = prev.log[i].late

====
